---------------------------- MODULE Spec2Model ----------------------------
(***************************************************************************)
(* Epidexus: agent based location-graph epidemic simulation.               *)
(*                                                                         *)
(* Five groups of state:                                                   *)
(*   - a single InfectionState object driven by arbitrary infect/update    *)
(*     calls (SpecInf),                                                    *)
(*   - a single Itinerary object driven by arbitrary add_entry and         *)
(*     get_location calls (SpecItin),                                      *)
(*   - a whole EpidexusModel with Locations and Persons, stepped through   *)
(*     the SimultaneousActivation schedule (Spec for the epidexus          *)
(*     package, SpecLegacy for the single-file epidexus.py),               *)
(*   - a single FixedWeekItineraryEntry of itinerary_entries.py driven by  *)
(*     its constructor and arbitrary reschedule calls (SpecWeek),          *)
(*   - one entry object shared by the itineraries of several persons, as   *)
(*     the TwoAges scenario and claim_by_age set it up (SpecTwoAges).      *)
(* Timestamps are integers counted in units of 1/UnitsPerDay of a day.     *)
(***************************************************************************)
EXTENDS Integers, Sequences, FiniteSets, TLC

VARIABLES
    \* ---- one InfectionState object (SpecInf)
    infection_state,   \* [seir, infected_when, incubation_time, recovering_time]
    is_call,           \* the last call on it: [op, arg, ret, raised]
    \* ---- one Itinerary object (SpecItin)
    the_itinerary,     \* sequence of entries [kind, location, go_when, leave_when]
    it_call,           \* the last call on it: [op, arg, ret, returns, added]
    \* ---- one EpidexusModel with its agents (Spec, SpecLegacy)
    pc,                \* where Model.step is: "idle", "step", "advance", "crashed"
    idx,               \* position in the schedule of the agent visited next
    current_date,      \* EpidexusModel.current_date
    sim_time_step,     \* EpidexusModel.sim_time_step
    schedule,          \* agents in registration order: [kind, id]
    seir_counts,       \* EpidexusModel.seir_counts
    datacollector,     \* the rows EpidexusModel.datacollector has collected:
                       \* <<Date, S, E, I, R>>
    person,            \* sequence of Person objects, indexed by creation order:
                       \* [infection_state, home_location, current_location, itinerary]
    location,          \* Location objects: [persons_here, access_policy,
                       \* infection_probability, infection_rate]
    used,              \* what the driver has done: [ticks, entries, policies, rates]
    snapshot,          \* persons_here, the INFECTED persons and all stages when the tick began
    trace,             \* the last constructor / relocation: [op, who, target, asked, raised]
                       \* and the number of relocations a location has denied so far
    \* ---- one FixedWeekItineraryEntry object (SpecWeek)
    week_entry,        \* [kind, location, go_when, leave_when, week_schedule]
    week_call,         \* the last call on it: [op, arg, raised, given, ret, returns]
    \* ---- entry objects shared between itineraries (SpecTwoAges)
    heap,              \* the entry objects ever allocated; an object's id is its index
    young_itinerary,   \* per young person: the_itinerary as a sequence of object ids
    twoages,           \* the scenario object: [scenario, meet_old_it, u11, u22,
                       \* initial_rate_young, initial_rate_old, young_rate, old_rate,
                       \* initial_meeting_duration, u12]
    ages_run           \* the run: [clock, step, pc, idx, ticks, sets, op] and the
                       \* values the driver assigned last to the three properties

unit_vars == <<infection_state, is_call>>
itin_vars == <<the_itinerary, it_call>>
sim_vars == <<pc, idx, current_date, sim_time_step, schedule, seir_counts, datacollector,
              person, location, used, snapshot, trace>>
week_vars == <<week_entry, week_call>>
ages_vars == <<heap, young_itinerary, twoages, ages_run>>
vars == <<infection_state, is_call, the_itinerary, it_call, pc, idx, current_date,
          sim_time_step, schedule, seir_counts, datacollector, person, location, used,
          snapshot, trace,
          week_entry, week_call, heap, young_itinerary, twoages, ages_run>>

(***************************************************************************)
(* Bounds of the model                                                     *)
(***************************************************************************)
MaxT == 4          \* timestamps handed to a lone InfectionState: 0..MaxT
MaxDur == 2        \* incubation_time / recovering_time of a lone InfectionState

Times == 0..MaxT
Durations == 0..MaxDur

(***************************************************************************)
(* SEIR enumeration and the None value                                     *)
(***************************************************************************)
SUSCEPTIBLE == 0
EXPOSED == 1
INFECTED == 2
RECOVERED == 3
SEIR == {SUSCEPTIBLE, EXPOSED, INFECTED, RECOVERED}

\* Python's None where a timestamp is expected.
None == -1

(***************************************************************************)
(* InfectionState                                                          *)
(***************************************************************************)
\* InfectionState.__init__
InfectionState(seir, incubation_time, recovering_time) ==
    [seir |-> seir, infected_when |-> None,
     incubation_time |-> incubation_time, recovering_time |-> recovering_time]

is_suceptible(s) == s.seir = SUSCEPTIBLE

is_infected(s) == s.seir = INFECTED

\* A bug infect could have: no guard on the stage.
infect_unguarded(s, when) ==
    [state |-> [s EXCEPT !.seir = EXPOSED, !.infected_when = when], ret |-> TRUE]

\* InfectionState.infect: the new state and the returned bool.
infect(s, when) ==
    IF s.seir = SUSCEPTIBLE
    THEN [state |-> [s EXCEPT !.seir = EXPOSED, !.infected_when = when], ret |-> TRUE]
    ELSE [state |-> s, ret |-> FALSE]

\* A bug update could have: the second test an `if`, so that both fire in one call.
update_chained(s, current_time) ==
    IF s.seir \in {EXPOSED, INFECTED} /\ s.infected_when = None
    THEN [state |-> s, raised |-> "TypeError"]
    ELSE LET s1 == IF s.seir = EXPOSED /\ s.infected_when + s.incubation_time < current_time
                   THEN [s EXCEPT !.seir = INFECTED] ELSE s
             s2 == IF s1.seir = INFECTED
                      /\ s1.infected_when + s1.incubation_time + s1.recovering_time < current_time
                   THEN [s1 EXCEPT !.seir = RECOVERED] ELSE s1
         IN [state |-> s2, raised |-> "none"]

\* A bug update could have: both comparisons inclusive.
update_inclusive(s, current_time) ==
    IF s.seir \in {EXPOSED, INFECTED} /\ s.infected_when = None
    THEN [state |-> s, raised |-> "TypeError"]
    ELSE IF s.seir = EXPOSED /\ s.infected_when + s.incubation_time <= current_time
    THEN [state |-> [s EXCEPT !.seir = INFECTED], raised |-> "none"]
    ELSE IF s.seir = INFECTED
            /\ s.infected_when + s.incubation_time + s.recovering_time <= current_time
    THEN [state |-> [s EXCEPT !.seir = RECOVERED], raised |-> "none"]
    ELSE [state |-> s, raised |-> "none"]

\* InfectionState.update: the new state and the exception raised, if any.
\* `None + timedelta` raises TypeError before anything is assigned; the
\* addition is only evaluated when the stage test before `and` is true.
update(s, current_time) ==
    IF s.seir = EXPOSED
    THEN IF s.infected_when = None
         THEN [state |-> s, raised |-> "TypeError"]
         ELSE IF s.infected_when + s.incubation_time < current_time
              THEN [state |-> [s EXCEPT !.seir = INFECTED], raised |-> "none"]
              ELSE [state |-> s, raised |-> "none"]
    ELSE IF s.seir = INFECTED
    THEN IF s.infected_when = None
         THEN [state |-> s, raised |-> "TypeError"]
         ELSE IF s.infected_when + s.incubation_time + s.recovering_time < current_time
              THEN [state |-> [s EXCEPT !.seir = RECOVERED], raised |-> "none"]
              ELSE [state |-> s, raised |-> "none"]
    ELSE [state |-> s, raised |-> "none"]

NoCall == [op |-> "init", arg |-> 0, ret |-> FALSE, raised |-> "none"]

\* A caller constructs an InfectionState with any stage and any durations.
InitInf ==
    /\ infection_state \in {InfectionState(s, i, r) : s \in SEIR, i \in Durations, r \in Durations}
    /\ is_call = NoCall

\* A caller calls infect(when).
ISInfect ==
    \E when \in Times :
        LET r == infect(infection_state, when) IN
        /\ infection_state' = r.state
        /\ is_call' = [op |-> "infect", arg |-> when, ret |-> r.ret, raised |-> "none"]

\* A caller calls update(now).
ISUpdate ==
    \E now \in Times :
        LET r == update(infection_state, now) IN
        /\ infection_state' = r.state
        /\ is_call' = [op |-> "update", arg |-> now, ret |-> FALSE, raised |-> r.raised]

(***************************************************************************)
(* ItineraryEntry and its subclasses                                       *)
(***************************************************************************)
UnitsPerDay == 2   \* resolution of the clock: timestamps per day
MaxGo == 1         \* go_when of a constructed entry: 0..MaxGo
MaxStay == 2       \* leave_when - go_when of a constructed entry: 0..MaxStay
MaxLen == 2        \* entries handed to add_entry on one itinerary
MaxAt == 4         \* timestamps handed to get_location: 0..MaxAt
NumLocations == 2

Locations == 1..NumLocations

\* get_location's None: no Location object.
NoLocation == 0

\* timedelta(days=1)
OneDay == UnitsPerDay

\* datetime.date(): the calendar day of a timestamp.
DateOf(t) == t \div UnitsPerDay

\* ItineraryEntry.__init__; kind is the class: "once" for the base class,
\* "daily" for DailyItineraryEntry. Nothing is validated.
ItineraryEntry(kind, where, go_when, leave_when) ==
    [kind |-> kind, location |-> where, go_when |-> go_when, leave_when |-> leave_when]

\* reschedule returning None.
NoEntry == ItineraryEntry("none", NoLocation, 0, 0)

\* ItineraryEntry.__lt__
EntryLt(a, b) == a.go_when < b.go_when

\* ItineraryEntry.reschedule (base class): not recurring.
reschedule_once(e, current_time) == NoEntry

\* A bug DailyItineraryEntry.reschedule could have: only the arrival is moved.
reschedule_daily_arrival(e, current_time) == [e EXCEPT !.go_when = e.go_when + OneDay]

\* DailyItineraryEntry.reschedule: a copy, one day later.
reschedule_daily(e, current_time) ==
    [e EXCEPT !.go_when = e.go_when + OneDay, !.leave_when = e.leave_when + OneDay]

(***************************************************************************)
(* FixedWeekItineraryEntry (itinerary_entries.py)                          *)
(***************************************************************************)
MaxSlots == 2      \* weekdays of a week schedule that are given hours
MaxStart == 6      \* start_date handed to the constructor: day 0..MaxStart
MaxWeekDays == 8   \* current_time handed to reschedule lies in day 0..MaxWeekDays

\* A weekday passed as None.
NoSlot == <<>>

\* datetime.time values used as hours: midnight and the last instant of a day.
SlotTimes == {0, UnitsPerDay - 1}

\* What a caller passes for one weekday: None or a 2-tuple (come, go).
Slots == {NoSlot} \cup {h \in SlotTimes \X SlotTimes : h[1] <= h[2]}

\* self._week_schedule: [monday, ..., sunday], indexed 0..6 as in Python.
WeekSchedules ==
    {ws \in [0..6 -> Slots] : Cardinality({i \in 0..6 : ws[i] # NoSlot}) <= MaxSlots}

\* date.weekday(): Monday is 0; day 0 of the clock is a Monday.
Weekday(day) == day % 7

\* datetime.combine(date, time)
combine(day, t) == day * UnitsPerDay + t

\* FixedWeekItineraryEntry.__next_valid_date: the first of the seven days from
\* from_date on that has hours; the for loop falls through to None.
next_valid_date(week_schedule, from_date) ==
    LET ds == {d \in 0..6 : week_schedule[(Weekday(from_date) + d) % 7] # NoSlot}
    IN IF ds = {} THEN None
       ELSE from_date + (CHOOSE d \in ds : \A o \in ds : d <= o)

\* No FixedWeekItineraryEntry object.
NoWeekEntry ==
    [kind |-> "none", location |-> NoLocation, go_when |-> 0, leave_when |-> 0,
     week_schedule |-> [i \in 0..6 |-> NoSlot]]

\* A bug the constructor could have: the search starts at the Monday of the
\* week of start_date.
FixedWeekItineraryEntry_monday(where, start_date, week_schedule) ==
    IF \A i \in 0..6 : week_schedule[i] = NoSlot
    THEN [entry |-> NoWeekEntry, raised |-> "Exception"]
    ELSE LET valid_start_date ==
                 next_valid_date(week_schedule, start_date - Weekday(start_date))
             hours == week_schedule[Weekday(valid_start_date)]
         IN [entry |-> [kind |-> "week", location |-> where,
                        go_when |-> combine(valid_start_date, hours[1]),
                        leave_when |-> combine(valid_start_date, hours[2]),
                        week_schedule |-> week_schedule],
             raised |-> "none"]

\* A bug the constructor could have: no test for hours, an entry without
\* hours starts and ends at start_date.
FixedWeekItineraryEntry_unchecked(where, start_date, week_schedule) ==
    LET valid_start_date == next_valid_date(week_schedule, start_date) IN
    IF valid_start_date = None
    THEN [entry |-> [kind |-> "week", location |-> where,
                     go_when |-> combine(start_date, 0),
                     leave_when |-> combine(start_date, 0),
                     week_schedule |-> week_schedule],
          raised |-> "none"]
    ELSE LET hours == week_schedule[Weekday(valid_start_date)]
         IN [entry |-> [kind |-> "week", location |-> where,
                        go_when |-> combine(valid_start_date, hours[1]),
                        leave_when |-> combine(valid_start_date, hours[2]),
                        week_schedule |-> week_schedule],
             raised |-> "none"]

\* FixedWeekItineraryEntry.__init__: the entry constructed and the exception
\* raised, if any.
FixedWeekItineraryEntry(where, start_date, week_schedule) ==
    IF \A i \in 0..6 : week_schedule[i] = NoSlot
    THEN [entry |-> NoWeekEntry, raised |-> "Exception"]
    ELSE LET valid_start_date == next_valid_date(week_schedule, start_date)
             hours == week_schedule[Weekday(valid_start_date)]
         IN [entry |-> [kind |-> "week", location |-> where,
                        go_when |-> combine(valid_start_date, hours[1]),
                        leave_when |-> combine(valid_start_date, hours[2]),
                        week_schedule |-> week_schedule],
             raised |-> "none"]

\* A bug reschedule could have: the current day is never skipped.
reschedule_week_today(e, current_time) ==
    LET next_day == next_valid_date(e.week_schedule, DateOf(current_time))
        hours == e.week_schedule[Weekday(next_day)]
    IN [e EXCEPT !.go_when = combine(next_day, hours[1]),
                 !.leave_when = combine(next_day, hours[2])]

\* FixedWeekItineraryEntry.reschedule: a copy at the next day that has hours.
reschedule_week(e, current_time) ==
    LET first_day == next_valid_date(e.week_schedule, DateOf(current_time))
        next_day ==
            IF combine(first_day, e.week_schedule[Weekday(first_day)][1]) < current_time
            THEN next_valid_date(e.week_schedule, DateOf(current_time) + 1)
            ELSE first_day
        hours == e.week_schedule[Weekday(next_day)]
    IN [e EXCEPT !.go_when = combine(next_day, hours[1]),
                 !.leave_when = combine(next_day, hours[2])]

\* Dynamic dispatch of entry.reschedule(current_time).
reschedule(e, current_time) ==
    IF e.kind = "daily" THEN reschedule_daily(e, current_time)
    ELSE IF e.kind = "week" THEN reschedule_week(e, current_time)
    ELSE reschedule_once(e, current_time)

(***************************************************************************)
(* Itinerary                                                               *)
(***************************************************************************)
\* A bug add_entry could have: bisect_left, the new entry goes before its equals.
RECURSIVE bisect_right_before(_, _, _, _)
bisect_right_before(a, x, lo, hi) ==
    IF lo < hi
    THEN LET mid == (lo + hi) \div 2 IN
         IF a[mid + 1].go_when < x.go_when THEN bisect_right_before(a, x, mid + 1, hi)
         ELSE bisect_right_before(a, x, lo, mid)
    ELSE lo

\* bisect.bisect_right(a, x, lo, hi) with x < a[mid] decided by __lt__
\* (indices here are 0-based as in Python; a[mid] is a[mid + 1] in TLA+).
RECURSIVE bisect_right(_, _, _, _)
bisect_right(a, x, lo, hi) ==
    IF lo < hi
    THEN LET mid == (lo + hi) \div 2 IN
         IF EntryLt(x, a[mid + 1]) THEN bisect_right(a, x, lo, mid)
         ELSE bisect_right(a, x, mid + 1, hi)
    ELSE lo

InsertAt(a, i, x) == SubSeq(a, 1, i) \o <<x>> \o SubSeq(a, i + 1, Len(a))

\* A bug add_entry could have: the entry is appended, the list is not sorted.
add_entry_appending(it, new_entry) == Append(it, new_entry)

\* Itinerary.add_entry: insort(self.the_itinerary, new_entry)
add_entry(it, new_entry) ==
    InsertAt(it, bisect_right(it, new_entry, 0, Len(it)), new_entry)

\* Passes of the while loop of get_location that the model follows before
\* it reports the call as not returning.
MaxLoop == (MaxAt \div UnitsPerDay + 2) * (MaxLen + 1)

\* A bug get_location could have: the visited entry is consumed on return.
RECURSIVE get_location_consuming(_, _, _)
get_location_consuming(it, at_time, fuel) ==
    IF Len(it) = 0 THEN [ret |-> NoLocation, it |-> it, returns |-> TRUE]
    ELSE IF it[1].go_when > at_time
    THEN [ret |-> NoLocation, it |-> it, returns |-> TRUE]
    ELSE IF it[1].go_when <= at_time /\ at_time < it[1].leave_when
    THEN [ret |-> it[1].location, it |-> Tail(it), returns |-> TRUE]
    ELSE IF fuel = 0 THEN [ret |-> NoLocation, it |-> it, returns |-> FALSE]
    ELSE LET new_entry == reschedule(it[1], at_time)
             rest == Tail(it)
         IN get_location_consuming(IF new_entry = NoEntry THEN rest ELSE add_entry(rest, new_entry),
                                   at_time, fuel - 1)

\* A bug get_location could have: occupancy closed at both ends.
RECURSIVE get_location_closed(_, _, _)
get_location_closed(it, at_time, fuel) ==
    IF Len(it) = 0 THEN [ret |-> NoLocation, it |-> it, returns |-> TRUE]
    ELSE IF it[1].go_when >= at_time
    THEN [ret |-> NoLocation, it |-> it, returns |-> TRUE]
    ELSE IF it[1].go_when <= at_time /\ at_time < it[1].leave_when
    THEN [ret |-> it[1].location, it |-> it, returns |-> TRUE]
    ELSE IF fuel = 0 THEN [ret |-> NoLocation, it |-> it, returns |-> FALSE]
    ELSE LET new_entry == reschedule(it[1], at_time)
             rest == Tail(it)
         IN get_location_closed(IF new_entry = NoEntry THEN rest ELSE add_entry(rest, new_entry),
                                at_time, fuel - 1)

\* Itinerary.get_location: the value returned and the itinerary left behind.
\* One recursion is one pass of `while len(self.the_itinerary) > 0`.
RECURSIVE get_location(_, _, _)
get_location(it, at_time, fuel) ==
    IF Len(it) = 0 THEN [ret |-> NoLocation, it |-> it, returns |-> TRUE]
    ELSE IF it[1].go_when > at_time
    THEN [ret |-> NoLocation, it |-> it, returns |-> TRUE]
    ELSE IF it[1].go_when <= at_time /\ at_time < it[1].leave_when
    THEN [ret |-> it[1].location, it |-> it, returns |-> TRUE]
    ELSE IF it[1].leave_when <= at_time
    THEN IF fuel = 0 THEN [ret |-> NoLocation, it |-> it, returns |-> FALSE]
         ELSE LET new_entry == reschedule(it[1], at_time)
                  rest == Tail(it)
              IN get_location(IF new_entry = NoEntry THEN rest ELSE add_entry(rest, new_entry),
                              at_time, fuel - 1)
    ELSE [ret |-> NoLocation, it |-> it, returns |-> FALSE]

\* The entries a caller constructs.
NewEntries ==
    {ItineraryEntry(k, l, g, g + d) :
        k \in {"once", "daily"}, l \in Locations, g \in 0..MaxGo, d \in 0..MaxStay}

NoItinCall == [op |-> "init", arg |-> 0, ret |-> NoLocation, returns |-> TRUE, added |-> 0]

InitItinIdle ==
    /\ the_itinerary = <<>>
    /\ it_call = NoItinCall

InitInfIdle ==
    /\ infection_state = InfectionState(SUSCEPTIBLE, 0, 0)
    /\ is_call = NoCall

\* A caller calls add_entry(new_entry).
ItAddEntry ==
    \E e \in NewEntries :
        /\ it_call.added < MaxLen
        /\ the_itinerary' = add_entry(the_itinerary, e)
        /\ it_call' = [op |-> "add_entry", arg |-> 0, ret |-> NoLocation, returns |-> TRUE,
                       added |-> it_call.added + 1]

\* A caller calls get_location(at_time).
ItGetLocation ==
    \E at_time \in 0..MaxAt :
        LET r == get_location(the_itinerary, at_time, MaxLoop) IN
        /\ the_itinerary' = r.it
        /\ it_call' = [op |-> "get_location", arg |-> at_time, ret |-> r.ret,
                       returns |-> r.returns, added |-> it_call.added]

(***************************************************************************)
(* EpidexusModel, Location and Person (the epidexus package)               *)
(***************************************************************************)
NumPersons == 2    \* Person objects a driver constructs
MaxTicks == 4      \* calls of Model.step
MaxEntries == 1    \* add_entry calls of the driver, over all persons
MaxPolicySets == 1 \* set_access_policy calls of the driver
MaxRateSets == 1   \* writes of a scenario to a location's infection_rate

\* InfectionState.__init__ defaults, in days.
IncubationDays == 4
RecoveringDays == 10

\* sim_time_step handed to EpidexusModel: a part of a day, a day, several days.
StepChoices == {1, OneDay, 5 * OneDay}

\* infection_probability handed to Location, in percent.
ProbChoices == {0, 50, 100}

\* infection_rate a scenario writes, initial rate * (1 - u), in percent:
\* full restriction (u = 1) and none (u = 0) of an initial rate of 1.0.
RateChoices == {0, 100}

\* Values of numpy.random.uniform() in [0, 1), in percent.
Draws == {0, 50, 99}

\* The entries a driver of the simulation constructs.
SimEntries ==
    {ItineraryEntry(k, l, 1, 2) : k \in {"once", "daily"}, l \in Locations}

LocationAgent(l) == [kind |-> "Location", id |-> l]
PersonAgent(p) == [kind |-> "Person", id |-> p]

\* Location.__init__: everybody is allowed in, nobody is here. The object has
\* no attribute infection_rate until a scenario assigns one.
NewLocation(infection_probability) ==
    [persons_here |-> <<>>, access_policy |-> "all",
     infection_probability |-> infection_probability, infection_rate |-> None]

\* Calling location.access_policy(person): the default lambda admits
\* everybody, the policy "none" is `lambda person: False`.
access_policy(l, p) == location[l].access_policy = "all"

\* list.remove(x): the first occurrence is removed.
RECURSIVE ListRemove(_, _)
ListRemove(a, x) ==
    IF a = <<>> THEN <<>>
    ELSE IF Head(a) = x THEN Tail(a)
    ELSE <<Head(a)>> \o ListRemove(Tail(a), x)

Count(a, x) == Cardinality({i \in 1..Len(a) : a[i] = x})

\* A bug go_here could have: the person is registered before the policy is asked.
go_here_registering(loc, l, p) == [loc EXCEPT ![l].persons_here = Append(@, p)]

\* Location.go_here: the locations afterwards; the person is appended iff allowed.
go_here(loc, l, p) ==
    IF access_policy(l, p)
    THEN [loc EXCEPT ![l].persons_here = Append(@, p)]
    ELSE loc

\* Location.leave_here
leave_here(loc, l, p) == [loc EXCEPT ![l].persons_here = ListRemove(@, p)]

\* b ** k
RECURSIVE Pow(_, _)
Pow(b, k) == IF k = 0 THEN 1 ELSE b * Pow(b, k - 1)

\* uniform() > (1 - infection_probability) ** num_infectious_people,
\* with draw and probability in percent.
DrawInfects(draw, probability, k) == draw * Pow(100, k) > 100 * Pow(100 - probability, k)

InfectedSet(pers) == {p \in 1..Len(pers) : is_infected(pers[p].infection_state)}

HereOf(loc) == [l \in Locations |-> loc[l].persons_here]

NoTrace == [op |-> "none", who |-> 0, target |-> NoLocation, asked |-> FALSE,
            raised |-> "none", denied |-> 0]

\* EpidexusModel.__init__ followed by the construction and registration of
\* the locations; no person exists yet.
InitSim ==
    /\ pc = "idle"
    /\ idx = 1
    /\ current_date = 0
    /\ sim_time_step \in StepChoices
    /\ \E pr \in ProbChoices : location = [l \in Locations |-> NewLocation(pr)]
    /\ schedule = [l \in Locations |-> LocationAgent(l)]
    /\ seir_counts = <<0, 0, 0, 0>>
    /\ datacollector = <<>>
    /\ person = <<>>
    /\ used = [ticks |-> 0, entries |-> 0, policies |-> 0, rates |-> 0]
    /\ snapshot = [here |-> [l \in Locations |-> <<>>], infected |-> {}, seir |-> <<>>]
    /\ trace = NoTrace

\* The model as it is while only a single object is exercised.
InitSimIdle ==
    /\ pc = "idle"
    /\ idx = 1
    /\ current_date = 0
    /\ sim_time_step = 1
    /\ location = [l \in Locations |-> NewLocation(0)]
    /\ schedule = <<>>
    /\ seir_counts = <<0, 0, 0, 0>>
    /\ datacollector = <<>>
    /\ person = <<>>
    /\ used = [ticks |-> 0, entries |-> 0, policies |-> 0, rates |-> 0]
    /\ snapshot = [here |-> [l \in Locations |-> <<>>], infected |-> {}, seir |-> <<>>]
    /\ trace = NoTrace

\* Person.__init__ followed by model.add_person. A refusing home location
\* makes the constructor raise: no Person object comes to exist.
NewPerson ==
    \E home \in Locations, seir \in SEIR :
        /\ pc = "idle" /\ used.ticks = 0
        /\ Len(person) < NumPersons
        /\ LET p == Len(person) + 1
               allowed == access_policy(home, p)
           IN /\ location' = go_here(location, home, p)
              /\ IF allowed
                 THEN /\ person' = Append(person,
                            [infection_state |-> InfectionState(seir, IncubationDays * OneDay,
                                                                RecoveringDays * OneDay),
                             home_location |-> home, current_location |-> home,
                             itinerary |-> <<>>])
                      /\ schedule' = Append(schedule, PersonAgent(p))
                 ELSE UNCHANGED <<person, schedule>>
              /\ trace' = [op |-> "Person", who |-> p, target |-> home, asked |-> TRUE,
                           raised |-> IF allowed THEN "none" ELSE "Exception",
                           denied |-> trace.denied]
        /\ UNCHANGED <<pc, idx, current_date, sim_time_step, seir_counts, datacollector,
                       used, snapshot>>

\* Person.infect called by the driver before the first tick.
PersonInfect ==
    \E p \in 1..Len(person) :
        /\ pc = "idle" /\ used.ticks = 0
        /\ person' = [person EXCEPT ![p].infection_state = infect(@, current_date).state]
        /\ UNCHANGED <<pc, idx, current_date, sim_time_step, schedule, seir_counts,
                       datacollector,
                       location, used, snapshot, trace>>

\* person.itinerary.add_entry called by the driver before the first tick.
PersonAddEntry ==
    \E p \in 1..Len(person), e \in SimEntries :
        /\ pc = "idle" /\ used.ticks = 0
        /\ used.entries < MaxEntries
        /\ person' = [person EXCEPT ![p].itinerary = add_entry(@, e)]
        /\ used' = [used EXCEPT !.entries = @ + 1]
        /\ UNCHANGED <<pc, idx, current_date, sim_time_step, schedule, seir_counts,
                       datacollector,
                       location, snapshot, trace>>

\* Location.set_access_policy called by the driver between two ticks.
SetAccessPolicy ==
    \E l \in Locations, policy \in {"all", "none"} :
        /\ pc = "idle"
        /\ used.policies < MaxPolicySets
        /\ location' = [location EXCEPT ![l].access_policy = policy]
        /\ used' = [used EXCEPT !.policies = @ + 1]
        /\ UNCHANGED <<pc, idx, current_date, sim_time_step, schedule, seir_counts,
                       datacollector,
                       person, snapshot, trace>>

\* A bug count_seir could have: the RECOVERED bin is never counted.
count_seir_unrecovered(pers) ==
    [i \in 1..4 |->
        IF i = 4 THEN 0
        ELSE Cardinality({p \in 1..Len(pers) : pers[p].infection_state.seir = i - 1})]

\* A scenario writes a location's infection_rate: OneLocation.__init__ and
\* control_variable, TwoAges.__init__, restriction_young and restriction_old.
SetInfectionRate ==
    \E l \in Locations, rate \in RateChoices :
        /\ pc = "idle"
        /\ used.rates < MaxRateSets
        /\ location' = [location EXCEPT ![l].infection_rate = rate]
        /\ used' = [used EXCEPT !.rates = @ + 1]
        /\ UNCHANGED <<pc, idx, current_date, sim_time_step, schedule, seir_counts,
                       datacollector, person, snapshot, trace>>

\* EpidexusModel.count_seir
count_seir(pers) ==
    [i \in 1..4 |-> Cardinality({p \in 1..Len(pers) : pers[p].infection_state.seir = i - 1})]

\* Every person's stage, in the order of model.persons.
StagesOf(pers) == [p \in 1..Len(pers) |-> pers[p].infection_state.seir]

\* EpidexusModel.step up to the call of schedule.step(): the clock advances
\* and, when the calendar day changed, the SEIR counts are taken and the
\* datacollector collects a row of the reporters Date, S, E, I, R.
ModelStep ==
    /\ pc = "idle"
    /\ used.ticks < MaxTicks
    /\ current_date' = current_date + sim_time_step
    /\ seir_counts' = IF DateOf(current_date') > DateOf(current_date)
                      THEN count_seir(person) ELSE seir_counts
    /\ datacollector' = IF DateOf(current_date') > DateOf(current_date)
                        THEN Append(datacollector, <<current_date'>> \o seir_counts')
                        ELSE datacollector
    /\ snapshot' = [here |-> HereOf(location), infected |-> InfectedSet(person),
                    seir |-> StagesOf(person)]
    /\ pc' = IF Len(schedule) = 0 THEN "idle" ELSE "step"
    /\ idx' = 1
    /\ used' = [used EXCEPT !.ticks = @ + 1]
    /\ UNCHANGED <<sim_time_step, schedule, person, location, trace>>

\* The clock value up to which a run that keeps stepping is followed: long
\* enough for a chain of exposures through all persons to end in RECOVERED.
LiveHorizon == NumPersons * (IncubationDays + RecoveringDays + 1) * OneDay

\* EpidexusModel.step up to the call of schedule.step(), called by a driver
\* that keeps stepping; the count of ticks stops at MaxTicks.
ModelStepLive ==
    /\ pc = "idle"
    /\ current_date + sim_time_step <= LiveHorizon
    /\ current_date' = current_date + sim_time_step
    /\ seir_counts' = IF DateOf(current_date') > DateOf(current_date)
                      THEN count_seir(person) ELSE seir_counts
    /\ datacollector' = IF DateOf(current_date') > DateOf(current_date)
                        THEN Append(datacollector, <<current_date'>> \o seir_counts')
                        ELSE datacollector
    /\ snapshot' = [here |-> HereOf(location), infected |-> InfectedSet(person),
                    seir |-> StagesOf(person)]
    /\ pc' = IF Len(schedule) = 0 THEN "idle" ELSE "step"
    /\ idx' = 1
    /\ used' = [used EXCEPT !.ticks = IF @ < MaxTicks THEN @ + 1 ELSE @]
    /\ UNCHANGED <<sim_time_step, schedule, person, location, trace>>

\* SimultaneousActivation.step: every agent's step(), then every agent's advance().
AfterVisit ==
    IF idx < Len(schedule) THEN /\ pc' = pc /\ idx' = idx + 1
    ELSE /\ pc' = (IF pc = "step" THEN "advance" ELSE "idle") /\ idx' = 1

\* A bug Location.step could have: exposed persons count as infectious.
Exposed_by_exposed(l, draws) ==
    LET here == location[l].persons_here
        num_infectious_people ==
            Cardinality({i \in 1..Len(here) :
                            person[here[i]].infection_state.seir \in {EXPOSED, INFECTED}})
    IN IF num_infectious_people = 0 THEN {}
       ELSE {p \in 1..Len(person) :
               /\ is_suceptible(person[p].infection_state)
               /\ \E i \in 1..Len(here) :
                     /\ here[i] = p
                     /\ DrawInfects(draws[i], location[l].infection_probability,
                                    num_infectious_people)}

\* The persons a Location.step infects: the susceptible persons here whose draw
\* exceeds the probability of no infection; draws[i] is drawn for persons_here[i].
Exposed(l, draws) ==
    LET here == location[l].persons_here
        num_infectious_people ==
            Cardinality({i \in 1..Len(here) : is_infected(person[here[i]].infection_state)})
    IN IF num_infectious_people = 0 THEN {}
       ELSE {p \in 1..Len(person) :
               /\ is_suceptible(person[p].infection_state)
               /\ \E i \in 1..Len(here) :
                     /\ here[i] = p
                     /\ DrawInfects(draws[i], location[l].infection_probability,
                                    num_infectious_people)}

\* Location.step: infections are evaluated.
LocationStep ==
    /\ pc = "step"
    /\ schedule[idx].kind = "Location"
    /\ LET l == schedule[idx].id IN
       \E draws \in [1..Len(location[l].persons_here) -> Draws] :
          person' = [p \in 1..Len(person) |->
                        IF p \in Exposed(l, draws)
                        THEN [person[p] EXCEPT
                                 !.infection_state = infect(@, current_date).state]
                        ELSE person[p]]
    /\ AfterVisit
    /\ UNCHANGED <<current_date, sim_time_step, schedule, seir_counts, datacollector,
                   location, used,
                   snapshot, trace>>

\* Person.step: the package's Person does not override Agent.step.
PersonStep ==
    /\ pc = "step"
    /\ schedule[idx].kind = "Person"
    /\ AfterVisit
    /\ UNCHANGED <<current_date, sim_time_step, schedule, seir_counts, datacollector,
                   person, location,
                   used, snapshot, trace>>

\* Location.advance: Location does not override Agent.advance.
LocationAdvance ==
    /\ pc = "advance"
    /\ schedule[idx].kind = "Location"
    /\ AfterVisit
    /\ UNCHANGED <<current_date, sim_time_step, schedule, seir_counts, datacollector,
                   person, location,
                   used, snapshot, trace>>

\* A bug __change_location could have: the old location is not left.
change_location_staying(pers, loc, p, new_location) ==
    IF new_location # pers[p].current_location
    THEN IF access_policy(new_location, p)
         THEN [person |-> [pers EXCEPT ![p].current_location = new_location],
               location |-> go_here(loc, new_location, p), asked |-> TRUE]
         ELSE [person |-> pers, location |-> go_here(loc, new_location, p), asked |-> TRUE]
    ELSE [person |-> pers, location |-> loc, asked |-> FALSE]

\* A bug __change_location could have: the result of go_here is ignored.
change_location_forced(pers, loc, p, new_location) ==
    IF new_location # pers[p].current_location
    THEN [person |-> [pers EXCEPT ![p].current_location = new_location],
          location |-> leave_here(go_here(loc, new_location, p),
                                  pers[p].current_location, p),
          asked |-> TRUE]
    ELSE [person |-> pers, location |-> loc, asked |-> FALSE]

\* Person.__change_location: the persons and locations afterwards, and
\* whether go_here was called.
change_location(pers, loc, p, new_location) ==
    IF new_location # pers[p].current_location
    THEN IF access_policy(new_location, p)
         THEN [person |-> [pers EXCEPT ![p].current_location = new_location],
               location |-> leave_here(go_here(loc, new_location, p),
                                       pers[p].current_location, p),
               asked |-> TRUE]
         ELSE [person |-> pers, location |-> go_here(loc, new_location, p), asked |-> TRUE]
    ELSE [person |-> pers, location |-> loc, asked |-> FALSE]

\* The location Person.advance heads for, given what get_location returned.
TargetOf(pers, p, scheduled_location) ==
    IF scheduled_location = NoLocation THEN pers[p].home_location ELSE scheduled_location

\* Person.advance: the infection state is updated, then the agent moves.
\* An exception leaves Model.step and ends the run.
PersonAdvance ==
    /\ pc = "advance"
    /\ schedule[idx].kind = "Person"
    /\ LET p == schedule[idx].id
           u == update(person[p].infection_state, current_date)
           g == get_location(person[p].itinerary, current_date, MaxLoop)
           pers1 == [person EXCEPT ![p].infection_state = u.state, ![p].itinerary = g.it]
           target == TargetOf(pers1, p, g.ret)
           c == change_location(pers1, location, p, target)
       IN IF u.raised # "none"
          THEN /\ pc' = "crashed"
               /\ trace' = [op |-> "advance", who |-> p, target |-> NoLocation,
                            asked |-> FALSE, raised |-> u.raised, denied |-> trace.denied]
               /\ UNCHANGED <<idx, person, location>>
          ELSE /\ g.returns
               /\ person' = c.person
               /\ location' = c.location
               /\ trace' = [op |-> "advance", who |-> p, target |-> target,
                            asked |-> c.asked, raised |-> "none",
                            denied |-> IF c.asked /\ ~access_policy(target, p)
                                       THEN trace.denied + 1 ELSE trace.denied]
               /\ AfterVisit
    /\ UNCHANGED <<current_date, sim_time_step, schedule, seir_counts, datacollector, used,
                   snapshot>>

(***************************************************************************)
(* The single-file epidexus.py: Location is no agent, Person.step          *)
(* evaluates the infection and updates the infection state, Person.advance *)
(* only moves.                                                             *)
(***************************************************************************)
\* EpidexusModel.__init__ and the construction of the locations
\* (epidexus.py); only persons are ever registered.
InitSimLegacy ==
    /\ pc = "idle"
    /\ idx = 1
    /\ current_date = 0
    /\ sim_time_step \in StepChoices
    /\ \E pr \in ProbChoices : location = [l \in Locations |-> NewLocation(pr)]
    /\ schedule = <<>>
    /\ seir_counts = <<0, 0, 0, 0>>
    /\ datacollector = <<>>
    /\ person = <<>>
    /\ used = [ticks |-> 0, entries |-> 0, policies |-> 0, rates |-> 0]
    /\ snapshot = [here |-> [l \in Locations |-> <<>>], infected |-> {}, seir |-> <<>>]
    /\ trace = NoTrace

\* Itinerary.get_location of epidexus.py: the rescheduled entry is handed to
\* add_entry without a test for None. insort(a, None) appends to an empty
\* list, and the next pass reads None.go_when (AttributeError); on a list
\* that is not empty it compares None < entry (TypeError).
RECURSIVE get_location_legacy(_, _, _)
get_location_legacy(it, at_time, fuel) ==
    IF Len(it) = 0 THEN [ret |-> NoLocation, it |-> it, returns |-> TRUE, raised |-> "none"]
    ELSE IF it[1] = NoEntry
    THEN [ret |-> NoLocation, it |-> it, returns |-> FALSE, raised |-> "AttributeError"]
    ELSE IF it[1].go_when > at_time
    THEN [ret |-> NoLocation, it |-> it, returns |-> TRUE, raised |-> "none"]
    ELSE IF it[1].go_when <= at_time /\ at_time < it[1].leave_when
    THEN [ret |-> it[1].location, it |-> it, returns |-> TRUE, raised |-> "none"]
    ELSE IF it[1].leave_when <= at_time
    THEN IF fuel = 0
         THEN [ret |-> NoLocation, it |-> it, returns |-> FALSE, raised |-> "none"]
         ELSE LET new_entry == reschedule(it[1], at_time)
                  rest == Tail(it)
              IN IF new_entry = NoEntry
                 THEN IF Len(rest) = 0
                      THEN get_location_legacy(<<NoEntry>>, at_time, fuel - 1)
                      ELSE [ret |-> NoLocation, it |-> rest, returns |-> FALSE,
                            raised |-> "TypeError"]
                 ELSE get_location_legacy(add_entry(rest, new_entry), at_time, fuel - 1)
    ELSE [ret |-> NoLocation, it |-> it, returns |-> FALSE, raised |-> "none"]

\* Whether Person.step of epidexus.py infects p: p is susceptible and some
\* infected person listed at p's location has its draw below the probability.
InfectsLegacy(p, draws) ==
    LET l == person[p].current_location
        here == location[l].persons_here
    IN /\ is_suceptible(person[p].infection_state)
       /\ \E i \in 1..Len(here) :
             /\ is_infected(person[here[i]].infection_state)
             /\ draws[i] < location[l].infection_probability

\* Person.step of epidexus.py: the infection is evaluated, then the
\* infection state is updated.
PersonStepLegacy ==
    /\ pc = "step"
    /\ schedule[idx].kind = "Person"
    /\ LET p == schedule[idx].id
           here == location[person[p].current_location].persons_here
       IN \E draws \in [1..Len(here) -> Draws] :
            LET s1 == IF InfectsLegacy(p, draws)
                      THEN infect(person[p].infection_state, current_date).state
                      ELSE person[p].infection_state
                u == update(s1, current_date)
            IN /\ person' = [person EXCEPT ![p].infection_state = u.state]
               /\ IF u.raised # "none"
                  THEN /\ pc' = "crashed"
                       /\ idx' = idx
                       /\ trace' = [op |-> "step", who |-> p, target |-> NoLocation,
                                    asked |-> FALSE, raised |-> u.raised,
                                    denied |-> trace.denied]
                  ELSE /\ AfterVisit
                       /\ trace' = trace
    /\ UNCHANGED <<current_date, sim_time_step, schedule, seir_counts, datacollector,
                   location, used,
                   snapshot>>

\* Person.advance of epidexus.py: the agent moves.
PersonAdvanceLegacy ==
    /\ pc = "advance"
    /\ schedule[idx].kind = "Person"
    /\ LET p == schedule[idx].id
           g == get_location_legacy(person[p].itinerary, current_date, MaxLoop)
           pers1 == [person EXCEPT ![p].itinerary = g.it]
           target == TargetOf(pers1, p, g.ret)
           c == change_location(pers1, location, p, target)
       IN IF g.raised # "none"
          THEN /\ pc' = "crashed"
               /\ person' = pers1
               /\ trace' = [op |-> "advance", who |-> p, target |-> NoLocation,
                            asked |-> FALSE, raised |-> g.raised, denied |-> trace.denied]
               /\ UNCHANGED <<idx, location>>
          ELSE /\ g.returns
               /\ person' = c.person
               /\ location' = c.location
               /\ trace' = [op |-> "advance", who |-> p, target |-> target,
                            asked |-> c.asked, raised |-> "none",
                            denied |-> IF c.asked /\ ~access_policy(target, p)
                                       THEN trace.denied + 1 ELSE trace.denied]
               /\ AfterVisit
    /\ UNCHANGED <<current_date, sim_time_step, schedule, seir_counts, datacollector, used,
                   snapshot>>

(***************************************************************************)
(* Callers of FixedWeekItineraryEntry                                      *)
(***************************************************************************)
NoWeekCall ==
    [op |-> "init", arg |-> 0, raised |-> "none", given |-> [i \in 0..6 |-> NoSlot],
     ret |-> NoLocation, returns |-> TRUE]

\* Nothing has been constructed yet.
InitWeek ==
    /\ week_entry = NoWeekEntry
    /\ week_call = NoWeekCall

\* A caller constructs a FixedWeekItineraryEntry.
WeekConstruct ==
    /\ week_call.op = "init"
    /\ \E where \in Locations, start_date \in 0..MaxStart, ws \in WeekSchedules :
          LET r == FixedWeekItineraryEntry(where, start_date, ws) IN
          /\ week_entry' = r.entry
          /\ week_call' = [op |-> "FixedWeekItineraryEntry", arg |-> start_date,
                           raised |-> r.raised, given |-> ws,
                           ret |-> NoLocation, returns |-> TRUE]

\* A caller calls reschedule(current_time) and goes on with the entry returned.
WeekReschedule ==
    \E current_time \in 0..((MaxWeekDays + 1) * UnitsPerDay - 1) :
        /\ week_entry.kind = "week" /\ week_call.returns
        /\ week_entry' = reschedule_week(week_entry, current_time)
        /\ week_call' = [op |-> "reschedule", arg |-> current_time, raised |-> "none",
                         given |-> week_entry.week_schedule,
                         ret |-> NoLocation, returns |-> TRUE]

\* A caller holds the entry in an itinerary of its own and calls
\* get_location(at_time) at a time of the entry's day or of the day after; the
\* entry the itinerary holds afterwards is the one the caller goes on with.
\* A call that does not return leaves the caller inside the loop for good.
WeekGetLocation ==
    /\ week_entry.kind = "week" /\ week_call.returns
    /\ \E day \in {DateOf(week_entry.go_when), DateOf(week_entry.go_when) + 1},
          t \in 0..(UnitsPerDay - 1) :
        /\ day <= MaxWeekDays
        /\ LET at_time == combine(day, t)
               r == get_location(<<week_entry>>, at_time, MaxLoop)
           IN /\ week_entry' = IF r.returns THEN r.it[1] ELSE week_entry
              /\ week_call' = [op |-> "get_location", arg |-> at_time, raised |-> "none",
                               given |-> week_entry.week_schedule,
                               ret |-> r.ret, returns |-> r.returns]

(***************************************************************************)
(* Entry objects shared between itineraries (scenarios/twoages.py,         *)
(* world_creation/world_creators.py)                                       *)
(***************************************************************************)
NumYoung == 2             \* num_young: the persons that hold the shared entry
HalfMeeting == 1          \* meeting_duration is 2 * HalfMeeting
MaxAgesTicks == 4         \* Model.step calls of a run
MaxRestrictionSets == 2   \* assignments to restriction_young_to_old of a run

\* u of restriction_young_to_old = u, in percent.
RestrictionChoices == {0, 50, 100}

\* sim_time_step of the scenario's model.
AgesSteps == {1, OneDay}

\* The Location the shared entry sends to: TwoAges._old_location.
OldLocation == 1

\* The week schedule of the entry handed to claim_by_age: monday only.
ClaimedWeek == [i \in 0..6 |-> IF i = 0 THEN <<0, UnitsPerDay - 1>> ELSE NoSlot]

\* The entries an itinerary of object references holds.
Deref(hp, it) == [i \in 1..Len(it) |-> hp[it[i]]]

\* A bug reschedule could have: no copy, the entry itself is shifted and returned.
reschedule_ref_in_place(hp, id, current_time) ==
    LET e == reschedule(hp[id], current_time)
    IN IF e = NoEntry THEN [heap |-> hp, new_entry |-> 0]
       ELSE [heap |-> [hp EXCEPT ![id] = e], new_entry |-> id]

\* entry.reschedule(current_time) on objects: new_entry = copy(self) is a new
\* object, self is left as it is; 0 stands for the None of the base class.
reschedule_ref(hp, id, current_time) ==
    LET e == reschedule(hp[id], current_time)
    IN IF e = NoEntry THEN [heap |-> hp, new_entry |-> 0]
       ELSE [heap |-> Append(hp, e), new_entry |-> Len(hp) + 1]

\* Itinerary.add_entry on objects: insort compares the objects' go_when.
add_entry_ref(hp, it, id) ==
    InsertAt(it, bisect_right(Deref(hp, it), hp[id], 0, Len(it)), id)

\* Itinerary.get_location on objects: the value returned, the itinerary and
\* the heap left behind.
RECURSIVE get_location_ref(_, _, _, _)
get_location_ref(hp, it, at_time, fuel) ==
    IF Len(it) = 0 THEN [ret |-> NoLocation, it |-> it, heap |-> hp, returns |-> TRUE]
    ELSE IF hp[it[1]].go_when > at_time
    THEN [ret |-> NoLocation, it |-> it, heap |-> hp, returns |-> TRUE]
    ELSE IF hp[it[1]].go_when <= at_time /\ at_time < hp[it[1]].leave_when
    THEN [ret |-> hp[it[1]].location, it |-> it, heap |-> hp, returns |-> TRUE]
    ELSE IF hp[it[1]].leave_when <= at_time
    THEN IF fuel = 0 THEN [ret |-> NoLocation, it |-> it, heap |-> hp, returns |-> FALSE]
         ELSE LET r == reschedule_ref(hp, it[1], at_time)
                  rest == Tail(it)
              IN get_location_ref(r.heap,
                                  IF r.new_entry = 0 THEN rest
                                  ELSE add_entry_ref(r.heap, rest, r.new_entry),
                                  at_time, fuel - 1)
    ELSE [ret |-> NoLocation, it |-> it, heap |-> hp, returns |-> FALSE]

\* What the driver assigned last to restriction_young, restriction_old and
\* restriction_young_to_old: TwoAges.__init__ assigns 0 to each.
NothingAssigned == [young |-> 0, old |-> 0, young_to_old |-> 0]

\* The getters of the three properties.
restriction_young(t) == t.u11

restriction_old(t) == t.u11

restriction_young_to_old(t) == t.u12

\* No scenario has been constructed.
InitAgesIdle ==
    /\ heap = <<>>
    /\ young_itinerary = <<>>
    /\ twoages = [scenario |-> "none", meet_old_it |-> 0, initial_meeting_duration |-> 0,
                  u12 |-> 0, u11 |-> 0, u22 |-> 0,
                  initial_rate_young |-> 0, initial_rate_old |-> 0,
                  young_rate |-> 0, old_rate |-> 0]
    /\ ages_run = [clock |-> 0, step |-> 1, pc |-> "idle", idx |-> 1, ticks |-> 0,
                   sets |-> 0, op |-> "none", assigned |-> NothingAssigned]

\* Either TwoAges.__init__ with start_date 0: _meet_old_it is one
\* DailyItineraryEntry, the three restrictions are assigned 0, the two
\* locations get their initial infection_rate, and every young person's
\* itinerary gets the one object; or a driver that hands one
\* FixedWeekItineraryEntry to claim_by_age, which adds it to every claimed
\* person's itinerary.
InitTwoAges ==
    \E step \in AgesSteps, scenario \in {"TwoAges", "claim_by_age"},
       infection_rate_young \in RateChoices, infection_rate_old \in RateChoices :
        /\ scenario = "claim_by_age" => infection_rate_young = 0 /\ infection_rate_old = 0
        /\ heap = IF scenario = "TwoAges"
                  THEN <<ItineraryEntry("daily", OldLocation, 0, 2 * HalfMeeting)>>
                  ELSE <<FixedWeekItineraryEntry(OldLocation, 0, ClaimedWeek).entry>>
        /\ young_itinerary = [p \in 1..NumYoung |-> <<1>>]
        /\ twoages = [scenario |-> scenario,
                      meet_old_it |-> IF scenario = "TwoAges" THEN 1 ELSE 0,
                      initial_meeting_duration |-> 2 * HalfMeeting,
                      u12 |-> 0, u11 |-> 0, u22 |-> 0,
                      initial_rate_young |-> infection_rate_young,
                      initial_rate_old |-> infection_rate_old,
                      young_rate |-> infection_rate_young,
                      old_rate |-> infection_rate_old]
        /\ ages_run = [clock |-> 0, step |-> step, pc |-> "idle", idx |-> 1, ticks |-> 0,
                       sets |-> 0, op |-> "init", assigned |-> NothingAssigned]

\* restriction_young_to_old = u, assigned by the driver between two ticks:
\* self._meet_old_it.leave_when = go_when + initial_meeting_duration * (1-u)
SetRestrictionYoungToOld ==
    \E u \in RestrictionChoices :
        /\ twoages.scenario = "TwoAges"
        /\ ages_run.pc = "idle"
        /\ ages_run.sets < MaxRestrictionSets
        /\ twoages' = [twoages EXCEPT !.u12 = u]
        /\ heap' = [heap EXCEPT ![twoages.meet_old_it].leave_when =
                        heap[twoages.meet_old_it].go_when
                        + (twoages.initial_meeting_duration * (100 - u)) \div 100]
        /\ ages_run' = [ages_run EXCEPT !.sets = @ + 1, !.op = "set",
                                        !.assigned.young_to_old = u]
        /\ UNCHANGED young_itinerary

\* restriction_young = u, assigned by the driver between two ticks.
SetRestrictionYoung ==
    \E u \in RestrictionChoices :
        /\ twoages.scenario = "TwoAges"
        /\ ages_run.pc = "idle"
        /\ ages_run.sets < MaxRestrictionSets
        /\ twoages' = [twoages EXCEPT
                           !.u11 = u,
                           !.young_rate = (twoages.initial_rate_young * (100 - u)) \div 100]
        /\ ages_run' = [ages_run EXCEPT !.sets = @ + 1, !.op = "set_young",
                                        !.assigned.young = u]
        /\ UNCHANGED <<heap, young_itinerary>>

\* restriction_old = u, assigned by the driver between two ticks.
SetRestrictionOld ==
    \E u \in RestrictionChoices :
        /\ twoages.scenario = "TwoAges"
        /\ ages_run.pc = "idle"
        /\ ages_run.sets < MaxRestrictionSets
        /\ twoages' = [twoages EXCEPT
                           !.u22 = u,
                           !.old_rate = (twoages.initial_rate_old * (100 - u)) \div 100]
        /\ ages_run' = [ages_run EXCEPT !.sets = @ + 1, !.op = "set_old",
                                        !.assigned.old = u]
        /\ UNCHANGED <<heap, young_itinerary>>

\* EpidexusModel.step up to the movement phase: the clock advances.
AgesModelStep ==
    /\ ages_run.pc = "idle"
    /\ ages_run.ticks < MaxAgesTicks
    /\ ages_run' = [ages_run EXCEPT !.clock = @ + ages_run.step, !.pc = "advance",
                                    !.idx = 1, !.ticks = @ + 1, !.op = "tick"]
    /\ UNCHANGED <<heap, young_itinerary, twoages>>

\* Person.advance of the young person visited next: its itinerary resolves
\* the location for current_date.
YoungAdvance ==
    /\ ages_run.pc = "advance"
    /\ LET p == ages_run.idx
           r == get_location_ref(heap, young_itinerary[p], ages_run.clock, MaxLoop)
       IN /\ heap' = r.heap
          /\ young_itinerary' = [young_itinerary EXCEPT ![p] = r.it]
          /\ ages_run' = [ages_run EXCEPT
                             !.pc = IF ~r.returns THEN "hung"
                                    ELSE IF p < NumYoung THEN "advance" ELSE "idle",
                             !.idx = IF p < NumYoung THEN p + 1 ELSE 1,
                             !.op = "advance"]
    /\ UNCHANGED twoages

(***************************************************************************)
(* Specifications of the single objects                                    *)
(***************************************************************************)
NextInf ==
    \/ ISInfect /\ UNCHANGED <<itin_vars, sim_vars, week_vars, ages_vars>>
    \/ ISUpdate /\ UNCHANGED <<itin_vars, sim_vars, week_vars, ages_vars>>

InitSpecInf == InitInf /\ InitItinIdle /\ InitSimIdle /\ InitWeek /\ InitAgesIdle

SpecInf == InitSpecInf /\ [][NextInf]_vars

NextItin ==
    \/ ItAddEntry /\ UNCHANGED <<unit_vars, sim_vars, week_vars, ages_vars>>
    \/ ItGetLocation /\ UNCHANGED <<unit_vars, sim_vars, week_vars, ages_vars>>

InitSpecItin == InitInfIdle /\ InitItinIdle /\ InitSimIdle /\ InitWeek /\ InitAgesIdle

SpecItin == InitSpecItin /\ [][NextItin]_vars

NextWeek ==
    \/ WeekConstruct /\ UNCHANGED <<unit_vars, itin_vars, sim_vars, ages_vars>>
    \/ WeekReschedule /\ UNCHANGED <<unit_vars, itin_vars, sim_vars, ages_vars>>
    \/ WeekGetLocation /\ UNCHANGED <<unit_vars, itin_vars, sim_vars, ages_vars>>

InitSpecWeek == InitInfIdle /\ InitItinIdle /\ InitSimIdle /\ InitWeek /\ InitAgesIdle

SpecWeek == InitSpecWeek /\ [][NextWeek]_vars

Next ==
    \/ NewPerson /\ UNCHANGED <<unit_vars, itin_vars, week_vars, ages_vars>>
    \/ PersonInfect /\ UNCHANGED <<unit_vars, itin_vars, week_vars, ages_vars>>
    \/ PersonAddEntry /\ UNCHANGED <<unit_vars, itin_vars, week_vars, ages_vars>>
    \/ SetAccessPolicy /\ UNCHANGED <<unit_vars, itin_vars, week_vars, ages_vars>>
    \/ ModelStep /\ UNCHANGED <<unit_vars, itin_vars, week_vars, ages_vars>>
    \/ LocationStep /\ UNCHANGED <<unit_vars, itin_vars, week_vars, ages_vars>>
    \/ PersonStep /\ UNCHANGED <<unit_vars, itin_vars, week_vars, ages_vars>>
    \/ LocationAdvance /\ UNCHANGED <<unit_vars, itin_vars, week_vars, ages_vars>>
    \/ PersonAdvance /\ UNCHANGED <<unit_vars, itin_vars, week_vars, ages_vars>>

Init == InitInfIdle /\ InitItinIdle /\ InitSim /\ InitWeek /\ InitAgesIdle

Spec == Init /\ [][Next]_vars

\* The package driven by a scenario like OneLocation: persons at home without
\* itinerary entries, some of them infected at the start, and a driver that
\* writes infection_rate.
NextScenario ==
    \/ NewPerson /\ UNCHANGED <<unit_vars, itin_vars, week_vars, ages_vars>>
    \/ PersonInfect /\ UNCHANGED <<unit_vars, itin_vars, week_vars, ages_vars>>
    \/ SetInfectionRate /\ UNCHANGED <<unit_vars, itin_vars, week_vars, ages_vars>>
    \/ ModelStep /\ UNCHANGED <<unit_vars, itin_vars, week_vars, ages_vars>>
    \/ LocationStep /\ UNCHANGED <<unit_vars, itin_vars, week_vars, ages_vars>>
    \/ PersonStep /\ UNCHANGED <<unit_vars, itin_vars, week_vars, ages_vars>>
    \/ LocationAdvance /\ UNCHANGED <<unit_vars, itin_vars, week_vars, ages_vars>>
    \/ PersonAdvance /\ UNCHANGED <<unit_vars, itin_vars, week_vars, ages_vars>>

InitScenario == InitInfIdle /\ InitItinIdle /\ InitSim /\ InitWeek /\ InitAgesIdle

SpecScenario == InitScenario /\ [][NextScenario]_vars

NextLegacy ==
    \/ NewPerson /\ UNCHANGED <<unit_vars, itin_vars, week_vars, ages_vars>>
    \/ PersonInfect /\ UNCHANGED <<unit_vars, itin_vars, week_vars, ages_vars>>
    \/ PersonAddEntry /\ UNCHANGED <<unit_vars, itin_vars, week_vars, ages_vars>>
    \/ SetAccessPolicy /\ UNCHANGED <<unit_vars, itin_vars, week_vars, ages_vars>>
    \/ ModelStep /\ UNCHANGED <<unit_vars, itin_vars, week_vars, ages_vars>>
    \/ PersonStepLegacy /\ UNCHANGED <<unit_vars, itin_vars, week_vars, ages_vars>>
    \/ PersonAdvanceLegacy /\ UNCHANGED <<unit_vars, itin_vars, week_vars, ages_vars>>

InitLegacy == InitInfIdle /\ InitItinIdle /\ InitSimLegacy /\ InitWeek /\ InitAgesIdle

SpecLegacy == InitLegacy /\ [][NextLegacy]_vars

\* The package with a driver that keeps calling Model.step: persons at home
\* without itinerary entries, some of them infected at the start. A step that
\* can be taken is taken: the driver's loop and the schedule run on.
NextLive ==
    \/ NewPerson /\ UNCHANGED <<unit_vars, itin_vars, week_vars, ages_vars>>
    \/ PersonInfect /\ UNCHANGED <<unit_vars, itin_vars, week_vars, ages_vars>>
    \/ ModelStepLive /\ UNCHANGED <<unit_vars, itin_vars, week_vars, ages_vars>>
    \/ LocationStep /\ UNCHANGED <<unit_vars, itin_vars, week_vars, ages_vars>>
    \/ PersonStep /\ UNCHANGED <<unit_vars, itin_vars, week_vars, ages_vars>>
    \/ LocationAdvance /\ UNCHANGED <<unit_vars, itin_vars, week_vars, ages_vars>>
    \/ PersonAdvance /\ UNCHANGED <<unit_vars, itin_vars, week_vars, ages_vars>>

\* The steps of a running Model.step and the driver's next call of it.
Stepping ==
    (ModelStepLive \/ LocationStep \/ PersonStep \/ LocationAdvance \/ PersonAdvance)
    /\ UNCHANGED <<unit_vars, itin_vars, week_vars, ages_vars>>

InitLive == InitInfIdle /\ InitItinIdle /\ InitSim /\ InitWeek /\ InitAgesIdle

SpecLive == InitLive /\ [][NextLive]_vars /\ WF_vars(Stepping)

NextTwoAges ==
    \/ SetRestrictionYoungToOld /\ UNCHANGED <<unit_vars, itin_vars, sim_vars, week_vars>>
    \/ SetRestrictionYoung /\ UNCHANGED <<unit_vars, itin_vars, sim_vars, week_vars>>
    \/ SetRestrictionOld /\ UNCHANGED <<unit_vars, itin_vars, sim_vars, week_vars>>
    \/ AgesModelStep /\ UNCHANGED <<unit_vars, itin_vars, sim_vars, week_vars>>
    \/ YoungAdvance /\ UNCHANGED <<unit_vars, itin_vars, sim_vars, week_vars>>

InitSpecTwoAges == InitInfIdle /\ InitItinIdle /\ InitSimIdle /\ InitWeek /\ InitTwoAges

SpecTwoAges == InitSpecTwoAges /\ [][NextTwoAges]_vars

(***************************************************************************)
(* Properties                                                              *)
(***************************************************************************)
\* The location whose persons_here the agent visited next reads in its
\* evaluation: a Location reads its own, a Person that of its current location.
ReadLocation(a) == IF a.kind = "Location" THEN a.id ELSE person[a.id].current_location

\* Whether the evaluation of the agent reads persons_here at all: Person.step
\* of epidexus.py does so only when the person is susceptible.
Reads(a) == a.kind = "Location" \/ is_suceptible(person[a.id].infection_state)

\* C1: in the evaluation phase of a tick, the agent visited next finds
\* persons_here of the location it reads, and the INFECTED persons listed in
\* it, exactly as they were when the tick began.
C1_EvaluationReadsSnapshot ==
    (pc = "step" /\ Reads(schedule[idx])) =>
        LET l == ReadLocation(schedule[idx])
            here == location[l].persons_here
        IN /\ here = snapshot.here[l]
           /\ \A i \in 1..Len(here) :
                 is_infected(person[here[i]].infection_state) <=> here[i] \in snapshot.infected

\* C2: a call of infect or update changes the stage only S->E, E->I or I->R,
\* and infected_when only at S->E, from None to a timestamp.
C2_StageOrder ==
    [][/\ infection_state'.seir # infection_state.seir =>
            <<infection_state.seir, infection_state'.seir>> \in
                {<<SUSCEPTIBLE, EXPOSED>>, <<EXPOSED, INFECTED>>, <<INFECTED, RECOVERED>>}
       /\ infection_state'.infected_when # infection_state.infected_when =>
            /\ infection_state.seir = SUSCEPTIBLE
            /\ infection_state'.seir = EXPOSED
            /\ infection_state.infected_when = None
       /\ (infection_state.seir = SUSCEPTIBLE /\ infection_state'.seir = EXPOSED) =>
            infection_state'.infected_when # None
      ]_vars

\* C2 witness: an InfectionState that went all the way from SUSCEPTIBLE to RECOVERED.
C2_Witness ==
    /\ infection_state.seir = RECOVERED
    /\ infection_state.infected_when # None
    /\ is_call.op = "update"

\* C3: infected_when is None exactly when the stage is SUSCEPTIBLE.
C3_NoneIffSusceptible ==
    (infection_state.infected_when = None) <=> (infection_state.seir = SUSCEPTIBLE)

\* C4: update(t1) followed by update(t2), t1 < t2, leaves the stage that
\* update(t2) alone leaves.
C4_UpdatePathIndependent ==
    \A t1 \in Times, t2 \in Times :
        t1 < t2 =>
            update(update(infection_state, t1).state, t2).state.seir
                = update(infection_state, t2).state.seir

\* C5: infect(when) on a SUSCEPTIBLE state returns True, leaves EXPOSED and
\* infected_when = when; on any other stage it returns False, raises nothing
\* and changes nothing.
C5_InfectContract ==
    [][is_call'.op = "infect" =>
          IF infection_state.seir = SUSCEPTIBLE
          THEN /\ is_call'.ret = TRUE
               /\ infection_state' = [infection_state EXCEPT !.seir = EXPOSED,
                                                             !.infected_when = is_call'.arg]
          ELSE /\ is_call'.ret = FALSE
               /\ is_call'.raised = "none"
               /\ infection_state' = infection_state
      ]_vars

\* C5 witness: infect has just exposed a susceptible state.
C5_Witness ==
    /\ is_call.op = "infect"
    /\ is_call.ret = TRUE
    /\ infection_state.seir = EXPOSED
    /\ infection_state.infected_when = is_call.arg

\* C6: every person is listed exactly once in persons_here of its
\* current_location and in no other location's, and nobody else is listed.
C6_OnePlacePerPerson ==
    /\ \A p \in 1..Len(person), l \in Locations :
          Count(location[l].persons_here, p)
              = IF l = person[p].current_location THEN 1 ELSE 0
    /\ \A l \in Locations :
          \A i \in 1..Len(location[l].persons_here) :
              location[l].persons_here[i] \in 1..Len(person)

\* C6 witness: a tick is over and a person is away from home.
C6_Witness ==
    /\ pc = "idle"
    /\ used.ticks > 0
    /\ \E p \in 1..Len(person) : person[p].current_location # person[p].home_location

\* The location the advance of person p heads for in this state.
HeadsFor(p) ==
    TargetOf(person, p, get_location(person[p].itinerary, current_date, MaxLoop).ret)

\* C7: when the advance of a person reaches its relocation and the location it
\* heads for is another one that refuses the person, go_here is asked (in
\* every tick in which this is so), nothing is raised, and current_location
\* and every persons_here stay as they are.
C7_DenialLeavesInPlace ==
    [][(/\ pc = "advance"
        /\ schedule[idx].kind = "Person"
        /\ update(person[schedule[idx].id].infection_state, current_date).raised = "none"
        /\ HeadsFor(schedule[idx].id) # person[schedule[idx].id].current_location
        /\ ~access_policy(HeadsFor(schedule[idx].id), schedule[idx].id))
       => LET p == schedule[idx].id IN
          /\ pc' # "crashed"
          /\ trace'.op = "advance" /\ trace'.who = p /\ trace'.raised = "none"
          /\ trace'.asked /\ trace'.target = HeadsFor(p)
          /\ person'[p].current_location = person[p].current_location
          /\ HereOf(location') = HereOf(location)
      ]_vars

\* C7 witness: a location has refused a relocation for the second time.
C7_Witness ==
    /\ trace.op = "advance"
    /\ trace.asked
    /\ trace.denied >= 2
    /\ ~access_policy(trace.target, trace.who)
    /\ person[trace.who].current_location # trace.target

\* C8: a Person constructor refused by the home location raises and leaves
\* every persons_here, the persons and the schedule as they were; an admitted
\* one yields a person at home, listed in the home's persons_here.
C8_ConstructionAtHome ==
    [][(trace' # trace /\ trace'.op = "Person") =>
          LET p == trace'.who
              home == trace'.target
          IN IF access_policy(home, p)
             THEN /\ trace'.raised = "none"
                  /\ Len(person') = p
                  /\ person'[p].home_location = home
                  /\ person'[p].current_location = home
                  /\ Count(location'[home].persons_here, p) = 1
             ELSE /\ trace'.raised = "Exception"
                  /\ HereOf(location') = HereOf(location)
                  /\ person' = person
                  /\ schedule' = schedule
      ]_vars

\* C8 witness: a constructor was refused by a home location where a person lives.
C8_Witness ==
    /\ trace.op = "Person"
    /\ trace.raised = "Exception"
    /\ Len(location[trace.target].persons_here) > 0

\* C9: with head entry h, get_location(at) returns None and changes nothing
\* when h.go_when > at, returns h.location and changes nothing when
\* h.go_when <= at < h.leave_when, and removes h when h.leave_when <= at.
C9_HeadDecides ==
    [][(it_call'.op = "get_location" /\ Len(the_itinerary) > 0) =>
          LET h == the_itinerary[1]
              at == it_call'.arg
          IN /\ h.go_when > at =>
                  /\ it_call'.ret = NoLocation
                  /\ it_call'.returns
                  /\ the_itinerary' = the_itinerary
             /\ (h.go_when <= at /\ at < h.leave_when) =>
                  /\ it_call'.ret = h.location
                  /\ it_call'.returns
                  /\ the_itinerary' = the_itinerary
             /\ (h.go_when <= at /\ h.leave_when <= at) =>
                  /\ it_call'.returns
                  /\ Count(the_itinerary', h) < Count(the_itinerary, h)
      ]_vars

\* C9 witness: get_location was called at the head's go_when and returned its location.
C9_Witness ==
    /\ it_call.op = "get_location"
    /\ Len(the_itinerary) > 0
    /\ the_itinerary[1].go_when = it_call.arg
    /\ it_call.ret = the_itinerary[1].location

\* C10: a second get_location(at) right after a first one returns the same
\* value and leaves the entries as the first call left them.
C10_SecondCallStable ==
    (it_call.op = "get_location" /\ it_call.returns) =>
        LET r == get_location(the_itinerary, it_call.arg, MaxLoop)
        IN /\ r.returns
           /\ r.ret = it_call.ret
           /\ r.it = the_itinerary

\* C10 witness: the first call rescheduled a daily entry and returned a location.
C10_Witness ==
    /\ it_call.op = "get_location"
    /\ it_call.ret # NoLocation
    /\ \E i \in 1..Len(the_itinerary) : the_itinerary[i].go_when > MaxGo

\* The itinerary of person p has a one-shot head whose leave_when has passed.
OneShotExpired(p) ==
    LET it == person[p].itinerary IN
    /\ Len(it) > 0
    /\ it[1].kind = "once"
    /\ it[1].leave_when <= current_date

\* C11: when the get_location of a person's advance finds a one-shot head with
\* leave_when <= at, it raises nothing, removes that entry and inserts nothing
\* for it, and goes on with the remaining entries: the itinerary left behind
\* and the location headed for are those of the remaining entries (None, so
\* home, when none remains).
C11_OneShotConsumed ==
    [][(/\ pc = "advance"
        /\ schedule[idx].kind = "Person"
        /\ update(person[schedule[idx].id].infection_state, current_date).raised = "none"
        /\ OneShotExpired(schedule[idx].id))
       => LET p == schedule[idx].id
              it == person[p].itinerary
              rest == get_location(Tail(it), current_date, MaxLoop)
          IN /\ pc' # "crashed"
             /\ trace'.op = "advance" /\ trace'.who = p /\ trace'.raised = "none"
             /\ person'[p].itinerary = rest.it
             /\ Count(person'[p].itinerary, it[1]) < Count(it, it[1])
             /\ trace'.target = TargetOf(person, p, rest.ret)
      ]_vars

\* Entry e moved k whole days later, location and duration kept.
Shifted(e, k) ==
    [e EXCEPT !.go_when = e.go_when + k * OneDay, !.leave_when = e.leave_when + k * OneDay]

\* The smallest whole number of days k with e.leave_when + k days > at,
\* for an entry with e.leave_when <= at.
CatchUpDays(e, at) ==
    CHOOSE k \in 1..(at + 1) :
        /\ e.leave_when + k * OneDay > at
        /\ e.leave_when + (k - 1) * OneDay <= at

\* get_location(at) is called on an itinerary whose head is an expired daily entry.
DailyHeadExpired ==
    /\ it_call'.op = "get_location"
    /\ Len(the_itinerary) > 0
    /\ the_itinerary[1].kind = "daily"
    /\ the_itinerary[1].leave_when <= it_call'.arg

DaysWithHours(ws) == {i \in 0..6 : ws[i] # NoSlot}

\* Day d is the day of current_time and its arrival time is before current_time.
ArrivalPassed(ws, d, current_time) ==
    /\ d = DateOf(current_time)
    /\ ws[Weekday(d)] # NoSlot
    /\ combine(d, ws[Weekday(d)][1]) < current_time

\* C13: reschedule(current_time) yields the entry at the earliest day D from
\* the day of current_time on (at most 7 days ahead) that has hours, the
\* current day skipped when its arrival time is before current_time, with
\* go_when / leave_when at D's hours and nothing else changed; a Monday and
\* Wednesday schedule rescheduled on a Tuesday lands on the next day.
C13_NextOccurrence ==
    [][week_call'.op = "reschedule" =>
          LET ws == week_entry.week_schedule
              current_time == week_call'.arg
              today == DateOf(current_time)
          IN /\ \E D \in today..(today + 7) :
                   /\ ws[Weekday(D)] # NoSlot
                   /\ ~ArrivalPassed(ws, D, current_time)
                   /\ \A d \in today..(D - 1) :
                         ws[Weekday(d)] = NoSlot \/ ArrivalPassed(ws, d, current_time)
                   /\ week_entry' =
                         [week_entry EXCEPT !.go_when = combine(D, ws[Weekday(D)][1]),
                                            !.leave_when = combine(D, ws[Weekday(D)][2])]
             /\ (DaysWithHours(ws) = {0, 2} /\ Weekday(today) = 1) =>
                   DateOf(week_entry'.go_when) = today + 1
      ]_vars

\* C13 witness: a Monday and Wednesday schedule was rescheduled on a Tuesday
\* and lies on the Wednesday after it.
C13_Witness ==
    /\ week_call.op = "reschedule"
    /\ DaysWithHours(week_entry.week_schedule) = {0, 2}
    /\ Weekday(DateOf(week_call.arg)) = 1
    /\ DateOf(week_entry.go_when) = DateOf(week_call.arg) + 1
    /\ Weekday(DateOf(week_entry.go_when)) = 2

\* C14: a constructor given hours for some weekday yields the entry at the
\* earliest day D in start_date .. start_date + 6 that has hours, go_when and
\* leave_when being D combined with that weekday's hours.
C14_FirstOccurrence ==
    (week_call.op = "FixedWeekItineraryEntry" /\ DaysWithHours(week_call.given) # {}) =>
        LET ws == week_call.given
            start_date == week_call.arg
        IN /\ week_call.raised = "none"
           /\ week_entry.kind = "week"
           /\ week_entry.week_schedule = ws
           /\ \E D \in start_date..(start_date + 6) :
                 /\ ws[Weekday(D)] # NoSlot
                 /\ \A d \in start_date..(D - 1) : ws[Weekday(d)] = NoSlot
                 /\ week_entry.go_when = combine(D, ws[Weekday(D)][1])
                 /\ week_entry.leave_when = combine(D, ws[Weekday(D)][2])

\* C14 witness: the first occurrence lies six days after start_date, in the
\* next week.
C14_Witness ==
    /\ week_call.op = "FixedWeekItineraryEntry"
    /\ week_call.raised = "none"
    /\ DateOf(week_entry.go_when) = week_call.arg + 6
    /\ Weekday(week_call.arg) > 0

\* C15: a constructor given no hours for any weekday raises and yields no entry.
C15_NoHoursRaises ==
    (week_call.op = "FixedWeekItineraryEntry" /\ DaysWithHours(week_call.given) = {}) =>
        /\ week_call.raised = "Exception"
        /\ week_entry = NoWeekEntry

\* C15 witness: a constructor was given seven None and raised.
C15_Witness ==
    /\ week_call.op = "FixedWeekItineraryEntry"
    /\ DaysWithHours(week_call.given) = {}
    /\ week_call.raised = "Exception"

\* The agent visited next is a Location whose step() is about to run.
LocationStepNext == pc = "step" /\ schedule[idx].kind = "Location"

\* The persons listed at location l that are in stage INFECTED.
InfectedHere(l) ==
    {i \in 1..Len(location[l].persons_here) :
        person[location[l].persons_here[i]].infection_state.seir = INFECTED}

\* C16: the step of a location that lists no INFECTED person changes no
\* person's infection state and raises nothing, whatever its
\* infection_probability.
C16_NoInfectedNoExposure ==
    [][(LocationStepNext /\ InfectedHere(schedule[idx].id) = {}) =>
          /\ pc' # "crashed"
          /\ \A p \in 1..Len(person) : person'[p].infection_state = person[p].infection_state
      ]_vars

\* C16 witness: a location with infection_probability 1.0 that lists a
\* susceptible and an exposed person, and nobody infected, has just been stepped.
C16_Witness ==
    /\ pc = "step"
    /\ idx > 1
    /\ schedule[idx - 1].kind = "Location"
    /\ LET l == schedule[idx - 1].id
           here == location[l].persons_here
       IN /\ location[l].infection_probability = 100
          /\ InfectedHere(l) = {}
          /\ \E i \in 1..Len(here) : person[here[i]].infection_state.seir = SUSCEPTIBLE
          /\ \E i \in 1..Len(here) : person[here[i]].infection_state.seir = EXPOSED

\* C17: the step of a location with infection_probability 1.0 that lists an
\* INFECTED person leaves every SUSCEPTIBLE person listed there EXPOSED,
\* whatever the draws.
C17_CertainExposure ==
    [][(/\ LocationStepNext
        /\ location[schedule[idx].id].infection_probability = 100
        /\ InfectedHere(schedule[idx].id) # {})
       => LET here == location[schedule[idx].id].persons_here IN
          \A i \in 1..Len(here) :
              person[here[i]].infection_state.seir = SUSCEPTIBLE =>
                  person'[here[i]].infection_state.seir = EXPOSED
      ]_vars

\* The end-to-end scenario: persons a and b are the two persons of the model,
\* live in the same location, whose infection_probability is 1.0, and have
\* nowhere else to go; a was infected before the first tick (by infect() at the
\* start date, or constructed INFECTED), b was constructed SUSCEPTIBLE and was
\* not infected before the first tick.
EndToEnd(a, b) ==
    /\ Len(person) = 2
    /\ a # b
    /\ used.entries = 0
    /\ person[a].home_location = person[b].home_location
    /\ location[person[a].home_location].infection_probability = 100
    /\ \/ person[a].infection_state.infected_when = 0
       \/ /\ person[a].infection_state.seir = INFECTED
          /\ person[a].infection_state.infected_when = None
    /\ \/ person[b].infection_state.seir = SUSCEPTIBLE
       \/ person[b].infection_state.infected_when > 0

\* C18: in the end-to-end scenario the run goes on, the second person is
\* EXPOSED after the first tick, is INFECTED (or further) once the clock has
\* passed its exposure by incubation_time, and is RECOVERED once the clock has
\* passed it by incubation_time + recovering_time.
C18_EndToEnd ==
    \A a \in 1..Len(person), b \in 1..Len(person) :
        (EndToEnd(a, b) /\ used.ticks >= 1 /\ pc \in {"idle", "crashed"}) =>
            LET s == person[b].infection_state IN
            /\ pc = "idle"
            /\ s.seir # SUSCEPTIBLE
            /\ s.infected_when = sim_time_step
            /\ used.ticks = 1 => s.seir = EXPOSED
            /\ current_date > s.infected_when + s.incubation_time =>
                  s.seir \in {INFECTED, RECOVERED}
            /\ current_date > s.infected_when + s.incubation_time + s.recovering_time =>
                  s.seir = RECOVERED

\* The sum of the four SEIR counts.
SumCounts(c) == c[1] + c[2] + c[3] + c[4]

\* C19: a Model.step that takes the clock to a later calendar date counts the
\* persons by stage (seir_counts[i] persons are in stage i, the four counts
\* sum to the number of persons added) and collects one row holding the date
\* and these counts; a Model.step that stays on the same date, and every
\* other step, counts and collects nothing.
C19_CountsAndSampling ==
    [][IF used'.ticks = used.ticks + 1
       THEN IF DateOf(current_date') > DateOf(current_date)
            THEN /\ \A i \in SEIR :
                       seir_counts'[i + 1] =
                           Cardinality({p \in 1..Len(person') :
                                           person'[p].infection_state.seir = i})
                 /\ SumCounts(seir_counts') = Len(person')
                 /\ datacollector' = Append(datacollector, <<current_date'>> \o seir_counts')
            ELSE /\ seir_counts' = seir_counts
                 /\ datacollector' = datacollector
       ELSE /\ seir_counts' = seir_counts
            /\ datacollector' = datacollector
      ]_vars

\* C19 witness: two rows were collected in more than two ticks, the last one
\* counting two persons, a recovered one among them.
C19_Witness ==
    /\ Len(datacollector) = 2
    /\ used.ticks > 2
    /\ seir_counts[4] >= 1
    /\ SumCounts(seir_counts) = 2
    /\ datacollector[2] = <<current_date>> \o seir_counts

\* C20: the infection_rate a scenario wrote to a location is what the
\* location's step computes the probability of no infection from: with a rate
\* of 0 that probability is 1 and no draw exposes anybody.
C20_RateDrivesTransmission ==
    [][(LocationStepNext /\ location[schedule[idx].id].infection_rate = 0) =>
          \A p \in 1..Len(person) : person'[p].infection_state = person[p].infection_state
      ]_vars

\* C23: update(now) that raises nothing moves EXPOSED to INFECTED iff
\* now > infected_when + incubation_time and INFECTED to RECOVERED iff
\* now > infected_when + incubation_time + recovering_time; at now equal to
\* the threshold the stage stays.
C23_StrictThresholds ==
    [][(is_call'.op = "update" /\ is_call'.raised = "none") =>
          LET s == infection_state
              now == is_call'.arg
          IN /\ s.seir = EXPOSED =>
                  IF now > s.infected_when + s.incubation_time
                  THEN infection_state'.seir = INFECTED
                  ELSE infection_state'.seir = EXPOSED
             /\ s.seir = INFECTED =>
                  IF now > s.infected_when + s.incubation_time + s.recovering_time
                  THEN infection_state'.seir = RECOVERED
                  ELSE infection_state'.seir = INFECTED
      ]_vars

\* C23 witness: update was called at exactly infected_when + incubation_time,
\* some time after the exposure, and the state is still EXPOSED.
C23_Witness ==
    /\ is_call.op = "update"
    /\ is_call.raised = "none"
    /\ infection_state.seir = EXPOSED
    /\ infection_state.incubation_time > 0
    /\ is_call.arg = infection_state.infected_when + infection_state.incubation_time

\* Sequence a is sorted by non-decreasing go_when.
SortedByGoWhen(a) == \A i \in 1..Len(a), j \in 1..Len(a) : i < j => a[i].go_when <= a[j].go_when

\* Sequence b is sequence a with entry e put in behind every entry whose
\* go_when is at most e's and before every entry whose go_when is later.
PlacedBehindEquals(a, e, b) ==
    LET k == Cardinality({i \in 1..Len(a) : a[i].go_when <= e.go_when})
    IN /\ b = SubSeq(a, 1, k) \o <<e>> \o SubSeq(a, k + 1, Len(a))
       /\ \A i \in 1..k : a[i].go_when <= e.go_when
       /\ \A i \in (k + 1)..Len(a) : a[i].go_when > e.go_when

\* C24: the itinerary is sorted by non-decreasing go_when after every call,
\* a call of add_entry leaves it with the new entry put in behind the entries
\* of equal go_when, and so does the insertion get_location makes for the
\* rescheduled head once the head is deleted.
C24_SortedStable ==
    /\ SortedByGoWhen(the_itinerary)
    /\ \A e \in NewEntries :
          PlacedBehindEquals(the_itinerary, e, add_entry(the_itinerary, e))
    /\ \A at_time \in 0..MaxAt :
          (the_itinerary # <<>> /\ reschedule(the_itinerary[1], at_time) # NoEntry) =>
             LET new_entry == reschedule(the_itinerary[1], at_time)
                 rest == Tail(the_itinerary)
             IN PlacedBehindEquals(rest, new_entry, add_entry(rest, new_entry))

\* C24 witness: get_location rescheduled two daily entries to one go_when
\* and each went in behind what was there.
C24_Witness ==
    /\ it_call.op = "get_location"
    /\ Len(the_itinerary) = 2
    /\ the_itinerary[1].go_when = the_itinerary[2].go_when
    /\ the_itinerary[1].go_when >= OneDay
    /\ the_itinerary[1].leave_when # the_itinerary[2].leave_when

\* An entry is active at a time when go_when <= at < leave_when.
ActiveAt(e, at) == e.go_when <= at /\ at < e.leave_when

\* C30: when get_location(at) returns None no entry left in the itinerary is
\* active at at, and when it returns a location that location is the one of
\* an active entry whose go_when is the earliest of all active entries.
C30_HeadInspectionComplete ==
    (it_call.op = "get_location" /\ it_call.returns) =>
        LET at == it_call.arg
            active == {i \in 1..Len(the_itinerary) : ActiveAt(the_itinerary[i], at)}
        IN IF it_call.ret = NoLocation
           THEN active = {}
           ELSE \E i \in active :
                   /\ the_itinerary[i].location = it_call.ret
                   /\ \A j \in active : the_itinerary[i].go_when <= the_itinerary[j].go_when

\* C30 witness: a location was returned while a later-starting entry for
\* another location is active too.
C30_Witness ==
    /\ it_call.op = "get_location" /\ it_call.returns
    /\ Len(the_itinerary) = 2
    /\ it_call.ret = the_itinerary[1].location
    /\ ActiveAt(the_itinerary[2], it_call.arg)
    /\ the_itinerary[2].go_when > the_itinerary[1].go_when
    /\ the_itinerary[2].location # it_call.ret

\* The tick ends with this step and its clock advance crossed a calendar-day
\* boundary: the datacollector's last row is the one this tick collected.
TickEndsWithSample ==
    /\ pc # "idle" /\ pc' = "idle"
    /\ Len(datacollector') > 0
    /\ datacollector'[Len(datacollector')][1] = current_date'

\* C26: the SEIR sample of a tick is taken after the tick's evaluation and
\* movement phases, so the row a tick collected counts the stages as they
\* are when that tick ends.
C26_SampleAfterPhases ==
    [][TickEndsWithSample =>
          SubSeq(datacollector'[Len(datacollector')], 2, 5) = count_seir(person')]_vars

\* C27: within one tick every person's stage advances by at most one stage,
\* a person exposed in the tick (infected_when is the tick's time) is EXPOSED
\* for the rest of the tick, and an update at the very time of the exposure
\* leaves the state EXPOSED for every incubation_time, zero included.
C27_OneStagePerTick ==
    /\ \A p \in 1..Len(snapshot.seir) :
          LET s == person[p].infection_state IN
          /\ s.seir - snapshot.seir[p] \in {0, 1}
          /\ (used.ticks > 0 /\ s.infected_when = current_date) => s.seir = EXPOSED
    /\ \A inc \in Durations, rec \in Durations, when \in Times :
          LET exposed == infect(InfectionState(SUSCEPTIBLE, inc, rec), when).state
          IN /\ exposed.seir = EXPOSED
             /\ update(exposed, when).state = exposed

\* C27 witness: a tick is over in which a location's draw exposed a person
\* whose own update came later in the same tick.
C27_Witness ==
    /\ pc = "idle" /\ used.ticks > 0
    /\ \E p \in 1..Len(snapshot.seir) :
          /\ snapshot.seir[p] = SUSCEPTIBLE
          /\ person[p].infection_state.seir = EXPOSED
          /\ person[p].infection_state.infected_when = current_date

\* C29: get_location(at) returns for every at and every itinerary of
\* entries the constructors accept; here for an itinerary that holds one
\* fixed-weekly entry.
C29_GetLocationReturns ==
    week_call.op = "get_location" => week_call.returns

\* C21: after restriction_young_to_old = u is assigned, at any point of a
\* TwoAges run, the entry that decides every young person's next visit to the
\* old location lasts initial_meeting_duration * (1 - u).
C21_RestrictionDrivesVisits ==
    (ages_run.op = "set" /\ twoages.scenario = "TwoAges") =>
        \A p \in 1..NumYoung :
            LET it == young_itinerary[p] IN
            /\ Len(it) > 0
            /\ heap[it[1]].location = OldLocation
            /\ heap[it[1]].leave_when - heap[it[1]].go_when
                  = (twoages.initial_meeting_duration * (100 - twoages.u12)) \div 100

\* C25: a reschedule done by one person's itinerary changes no object that
\* existed before, and the entries every other itinerary holds have the
\* go_when, leave_when and location they had.
C25_RescheduleCopies ==
    [][ages_run'.op = "advance" =>
          /\ \A id \in 1..Len(heap) : heap'[id] = heap[id]
          /\ \A q \in 1..NumYoung :
                q # ages_run.idx =>
                   Deref(heap', young_itinerary'[q]) = Deref(heap, young_itinerary[q])
      ]_vars

\* C25 witness: one person's itinerary has rescheduled the shared entry and
\* holds the successor, another person's still holds the shared object,
\* which is earlier than the successor.
C25_Witness ==
    /\ ages_run.op = "advance"
    /\ \E p \in 1..NumYoung, q \in 1..NumYoung :
          /\ young_itinerary[q] = <<1>>
          /\ young_itinerary[p] # <<1>> /\ Len(young_itinerary[p]) = 1
          /\ heap[young_itinerary[p][1]].go_when > heap[1].go_when
          /\ heap[young_itinerary[p][1]].location = heap[1].location

\* C28: every entry held in an itinerary has go_when < leave_when.
C28_EntriesWellFormed ==
    \A p \in 1..Len(young_itinerary) :
        \A i \in 1..Len(young_itinerary[p]) :
            heap[young_itinerary[p][i]].go_when < heap[young_itinerary[p][i]].leave_when

\* The state of a simulation: clock, step, population with itineraries,
\* locations, agent registration order, the sample taken last and the rows
\* collected, and how far Model.step has come.
SimState ==
    [pc |-> pc, idx |-> idx, current_date |-> current_date,
     sim_time_step |-> sim_time_step, schedule |-> schedule, seir_counts |-> seir_counts,
     datacollector |-> datacollector, person |-> person, location |-> location]

\* SimultaneousActivation.step as a function of the state: the next agent,
\* the next phase, or the end of the tick.
AfterVisitOf(s) ==
    IF s.idx < Len(s.schedule) THEN [s EXCEPT !.idx = @ + 1]
    ELSE [s EXCEPT !.pc = IF s.pc = "step" THEN "advance" ELSE "idle", !.idx = 1]

\* EpidexusModel.step up to schedule.step() as a function of the state.
ModelStepOf(s) ==
    LET date == s.current_date + s.sim_time_step
        sample == DateOf(date) > DateOf(s.current_date)
        counts ==
            IF sample
            THEN [i \in 1..4 |->
                     Cardinality({p \in 1..Len(s.person) :
                                     s.person[p].infection_state.seir = i - 1})]
            ELSE s.seir_counts
    IN [s EXCEPT !.current_date = date,
                 !.seir_counts = counts,
                 !.datacollector = IF sample THEN Append(@, <<date>> \o counts) ELSE @,
                 !.pc = IF Len(s.schedule) = 0 THEN "idle" ELSE "step",
                 !.idx = 1]

\* Location.step of location l as a function of the state and the draws.
LocationStepOf(s, l, draws) ==
    LET here == s.location[l].persons_here
        k == Cardinality({i \in 1..Len(here) :
                             s.person[here[i]].infection_state.seir = INFECTED})
        hit(p) == /\ k > 0
                  /\ s.person[p].infection_state.seir = SUSCEPTIBLE
                  /\ \E i \in 1..Len(here) :
                        /\ here[i] = p
                        /\ draws[i] * Pow(100, k)
                              > 100 * Pow(100 - s.location[l].infection_probability, k)
    IN AfterVisitOf([s EXCEPT !.person =
                        [p \in 1..Len(s.person) |->
                            IF hit(p)
                            THEN [s.person[p] EXCEPT
                                     !.infection_state.seir = EXPOSED,
                                     !.infection_state.infected_when = s.current_date]
                            ELSE s.person[p]]])

\* Person.advance of person p as a function of the state.
PersonAdvanceOf(s, p) ==
    LET u == update(s.person[p].infection_state, s.current_date)
        g == get_location(s.person[p].itinerary, s.current_date, MaxLoop)
        cur == s.person[p].current_location
        target == IF g.ret = NoLocation THEN s.person[p].home_location ELSE g.ret
        pers1 == [s.person EXCEPT ![p].infection_state = u.state, ![p].itinerary = g.it]
    IN IF u.raised # "none" THEN [s EXCEPT !.pc = "crashed"]
       ELSE IF target = cur \/ s.location[target].access_policy # "all"
       THEN AfterVisitOf([s EXCEPT !.person = pers1])
       ELSE AfterVisitOf([s EXCEPT
               !.person = [pers1 EXCEPT ![p].current_location = target],
               !.location = [@ EXCEPT ![target].persons_here = Append(@, p),
                                      ![cur].persons_here = ListRemove(@, p)]])

\* One step of Model.step as a function of the state and of the draws handed
\* to the location whose turn it is.
NextStateOf(s, draws) ==
    IF s.pc = "idle" THEN ModelStepOf(s)
    ELSE IF s.schedule[s.idx].kind = "Location"
    THEN IF s.pc = "step" THEN LocationStepOf(s, s.schedule[s.idx].id, draws)
         ELSE AfterVisitOf(s)
    ELSE IF s.pc = "step" THEN AfterVisitOf(s)
         ELSE PersonAdvanceOf(s, s.schedule[s.idx].id)

\* The sequences of draws the agent whose turn it is can be handed: one draw
\* per person listed by a location that evaluates, none otherwise.
DrawsOf(s) ==
    IF s.pc = "step" /\ s.schedule[s.idx].kind = "Location"
    THEN [1..Len(s.location[s.schedule[s.idx].id].persons_here) -> Draws]
    ELSE {<<>>}

\* The step is one the running Model.step takes: the clock advance or an
\* agent's visit.
InModelStep == pc \in {"step", "advance"} \/ current_date' # current_date

\* The step is the Location.step that the draws make.
LocationDrew(draws) ==
    /\ pc = "step" /\ schedule[idx].kind = "Location"
    /\ person' = [p \in 1..Len(person) |->
                     IF p \in Exposed(schedule[idx].id, draws)
                     THEN [person[p] EXCEPT
                              !.infection_state = infect(@, current_date).state]
                     ELSE person[p]]

C32_FirstTickCompletes ==
    (used.ticks = 1 /\ \A p \in 1..Len(person) : person[p].itinerary = <<>>) =>
        /\ pc # "crashed"
        /\ trace.raised # "TypeError"

\* C33: after any assignments to the three restriction properties of a
\* TwoAges scenario, reading each property returns the value assigned to it
\* last.
C33_RestrictionsRoundTrip ==
    twoages.scenario = "TwoAges" =>
        /\ restriction_young(twoages) = ages_run.assigned.young
        /\ restriction_old(twoages) = ages_run.assigned.old
        /\ restriction_young_to_old(twoages) = ages_run.assigned.young_to_old

\* Person p has become EXPOSED: Person.infect or a location's draw exposed it.
BecameExposed(p) ==
    /\ p <= Len(person)
    /\ person[p].infection_state.seir = EXPOSED
    /\ person[p].infection_state.infected_when # None

\* Person p is in the given stage.
InStage(p, stage) == p <= Len(person) /\ person[p].infection_state.seir = stage

\* C31: while the model keeps stepping, every person who becomes EXPOSED
\* becomes INFECTED later, every INFECTED person becomes RECOVERED later, and
\* a RECOVERED person stays RECOVERED.
C31_ExposedRecover ==
    \A p \in 1..NumPersons :
        /\ BecameExposed(p) ~> InStage(p, INFECTED)
        /\ (InStage(p, INFECTED) /\ person[p].infection_state.infected_when # None)
              ~> InStage(p, RECOVERED)
        /\ [](InStage(p, RECOVERED) => []InStage(p, RECOVERED))

=============================================================================
